---- MODULE Spec2Model ----
(***************************************************************************)
(* Model of src/vectors.py: the class Vector (a 2D vector of two Python    *)
(* numbers) and its operators.                                             *)
(*                                                                         *)
(* Python values are records [t, c, v]:                                    *)
(*   t = "int" | "bool"      v = the integer (bool: 0 or 1), exact         *)
(*   t = "float"             c = "fin": v counts units of 1/Scale,         *)
(*                               |v| <= FMaxU (a scaled-down binary64);   *)
(*                           c = "inf" | "ninf" | "nan": the specials      *)
(*   t = "str" | "NoneType"  a non-number                                  *)
(*   t = "Vector"            v = the index of the object in heap           *)
(*   t = "angle"             the float math.acos(v units)                  *)
(*   t = an exception class  c = its message: the raised exception         *)
(* Float arithmetic rounds to the nearest unit (ties to even); a product,  *)
(* sum or quotient beyond the largest float becomes an infinity, x ** 2    *)
(* beyond it raises OverflowError, and so does converting an int beyond    *)
(* it, as in CPython.  The sign of a float zero is not modelled.           *)
(***************************************************************************)
EXTENDS Integers, Sequences, FiniteSets, TLC

(* -------- bounds of the model -------- *)
Scale == 16
FloatMax == 64
MaxOps == 2

FMaxU == FloatMax * Scale

(* -------- Python values -------- *)
I(n) == [t |-> "int", c |-> "fin", v |-> n]
B(b) == [t |-> "bool", c |-> "fin", v |-> IF b THEN 1 ELSE 0]
F(u) == [t |-> "float", c |-> "fin", v |-> u]
Inf == [t |-> "float", c |-> "inf", v |-> 0]
NInf == [t |-> "float", c |-> "ninf", v |-> 0]
NaN == [t |-> "float", c |-> "nan", v |-> 0]
Str == [t |-> "str", c |-> "fin", v |-> 0]
None == [t |-> "NoneType", c |-> "fin", v |-> 0]
Ref(i) == [t |-> "Vector", c |-> "ref", v |-> i]
Raise(e, msg) == [t |-> e, c |-> msg, v |-> 0]

Errors == {"TypeError", "ZeroDivisionError", "OverflowError", "NotImplementedError", "ValueError"}
IsRaise(x) == x.t \in Errors

\* isinstance(x, (int, float)); bool is a subclass of int
IsNumber(x) == x.t \in {"int", "bool", "float"}
\* isinstance(x, Vector)
IsVector(x) == x.t = "Vector"

IsIntLike(x) == x.t \in {"int", "bool"}
IsFin(x) == x.c = "fin"

Abs(n) == IF n < 0 THEN -n ELSE n
Sgn(n) == IF n < 0 THEN -1 ELSE IF n > 0 THEN 1 ELSE 0

\* n / d (d > 0) rounded to the nearest integer, ties to even
RoundNat(n, d) ==
  LET q == n \div d
      r == n % d
  IN IF 2 * r < d THEN q
     ELSE IF 2 * r > d THEN q + 1
     ELSE IF q % 2 = 0 THEN q ELSE q + 1
RoundDiv(n, d) == IF n >= 0 THEN RoundNat(n, d) ELSE -RoundNat(-n, d)

RECURSIVE Isqrt(_)
Isqrt(n) ==
  IF n < 2 THEN n
  ELSE LET s == 2 * Isqrt(n \div 4)
       IN IF (s + 1) * (s + 1) <= n THEN s + 1 ELSE s

\* the float nearest to u units; beyond the largest float: an infinity
FloatOrInf(u) == IF u > FMaxU THEN Inf ELSE IF u < -FMaxU THEN NInf ELSE F(u)
SignedInf(s) == IF s > 0 THEN Inf ELSE IF s < 0 THEN NInf ELSE NaN
FSign(x) == IF x.c = "inf" THEN 1 ELSE IF x.c = "ninf" THEN -1 ELSE Sgn(x.v)

\* float(x) for a number x: an int too large for a float raises
ToFloat(x) ==
  IF x.t = "float" THEN x
  ELSE IF Abs(x.v) > FloatMax
       THEN Raise("OverflowError", "int too large to convert to float")
       ELSE F(x.v * Scale)

\* float * float
FMul(a, b) ==
  IF a.c = "nan" \/ b.c = "nan" THEN NaN
  ELSE IF ~IsFin(a) \/ ~IsFin(b) THEN SignedInf(FSign(a) * FSign(b))
  ELSE FloatOrInf(RoundDiv(a.v * b.v, Scale))

\* float + float
FAdd(a, b) ==
  IF a.c = "nan" \/ b.c = "nan" THEN NaN
  ELSE IF ~IsFin(a) /\ ~IsFin(b) THEN (IF a.c = b.c THEN a ELSE NaN)
  ELSE IF ~IsFin(a) THEN a
  ELSE IF ~IsFin(b) THEN b
  ELSE FloatOrInf(a.v + b.v)

FNeg(a) == IF a.c = "inf" THEN NInf ELSE IF a.c = "ninf" THEN Inf
           ELSE IF a.c = "nan" THEN NaN ELSE F(-a.v)

\* float / float, b # 0
FDiv(a, b) ==
  IF a.c = "nan" \/ b.c = "nan" THEN NaN
  ELSE IF ~IsFin(a) /\ ~IsFin(b) THEN NaN
  ELSE IF ~IsFin(a) THEN SignedInf(FSign(a) * FSign(b))
  ELSE IF ~IsFin(b) THEN F(0)
  ELSE FloatOrInf(Sgn(b.v) * RoundDiv(a.v * Scale, Abs(b.v)))

\* x == 0 for a number x
IsZero(x) == IsFin(x) /\ x.v = 0

\* Python's a * b on numbers
PyMul(a, b) ==
  IF IsRaise(a) THEN a ELSE IF IsRaise(b) THEN b
  ELSE IF IsIntLike(a) /\ IsIntLike(b) THEN I(a.v * b.v)
  ELSE LET fa == ToFloat(a)
           fb == ToFloat(b)
       IN IF IsRaise(fa) THEN fa ELSE IF IsRaise(fb) THEN fb ELSE FMul(fa, fb)

\* Python's a + b on numbers
PyAdd(a, b) ==
  IF IsRaise(a) THEN a ELSE IF IsRaise(b) THEN b
  ELSE IF IsIntLike(a) /\ IsIntLike(b) THEN I(a.v + b.v)
  ELSE LET fa == ToFloat(a)
           fb == ToFloat(b)
       IN IF IsRaise(fa) THEN fa ELSE IF IsRaise(fb) THEN fb ELSE FAdd(fa, fb)

\* Python's a - b on numbers
PySub(a, b) ==
  IF IsRaise(a) THEN a ELSE IF IsRaise(b) THEN b
  ELSE IF IsIntLike(a) /\ IsIntLike(b) THEN I(a.v - b.v)
  ELSE LET fa == ToFloat(a)
           fb == ToFloat(b)
       IN IF IsRaise(fa) THEN fa ELSE IF IsRaise(fb) THEN fb ELSE FAdd(fa, FNeg(fb))

\* Python's a / b on numbers (true division)
PyTrueDiv(a, b) ==
  IF IsRaise(a) THEN a ELSE IF IsRaise(b) THEN b
  ELSE IF IsIntLike(a) /\ IsIntLike(b)
       THEN IF b.v = 0 THEN Raise("ZeroDivisionError", "division by zero")
            ELSE LET q == Sgn(b.v) * RoundDiv(a.v * Scale, Abs(b.v))
                 IN IF Abs(q) > FMaxU
                    THEN Raise("OverflowError", "integer division result too large for a float")
                    ELSE F(q)
  ELSE LET fa == ToFloat(a)
           fb == ToFloat(b)
       IN IF IsRaise(fa) THEN fa ELSE IF IsRaise(fb) THEN fb
          ELSE IF IsZero(fb) THEN Raise("ZeroDivisionError", "float division by zero")
          ELSE FDiv(fa, fb)

\* Python's x ** 2 on a number
PyPow2(x) ==
  IF IsRaise(x) THEN x
  ELSE IF IsIntLike(x) THEN I(x.v * x.v)
  ELSE IF x.c = "nan" THEN NaN
  ELSE IF ~IsFin(x) THEN Inf
  ELSE LET u == RoundDiv(x.v * x.v, Scale)
       IN IF u > FMaxU THEN Raise("OverflowError", "Numerical result out of range") ELSE F(u)

\* math.sqrt(x)
MathSqrt(x) ==
  IF IsRaise(x) THEN x
  ELSE LET f == ToFloat(x)
       IN IF IsRaise(f) THEN f
          ELSE IF f.c = "nan" THEN NaN
          ELSE IF f.c = "inf" THEN Inf
          ELSE IF f.c = "ninf" \/ f.v < 0 THEN Raise("ValueError", "math domain error")
          ELSE LET n == f.v * Scale
                   r == Isqrt(n)
               IN IF n - r * r > r THEN F(r + 1) ELSE F(r)

\* Python's a == b on numbers
PyEq(a, b) ==
  IF a.c = "nan" \/ b.c = "nan" THEN FALSE
  ELSE IF ~IsFin(a) \/ ~IsFin(b) THEN a.c = b.c
  ELSE (IF IsIntLike(a) THEN a.v * Scale ELSE a.v) = (IF IsIntLike(b) THEN b.v * Scale ELSE b.v)

\* Python's a < b on numbers
PyLt(a, b) ==
  IF a.c = "nan" \/ b.c = "nan" THEN FALSE
  ELSE IF a.c = "inf" \/ b.c = "ninf" THEN FALSE
  ELSE IF a.c = "ninf" \/ b.c = "inf" THEN TRUE
  ELSE (IF IsIntLike(a) THEN a.v * Scale ELSE a.v) < (IF IsIntLike(b) THEN b.v * Scale ELSE b.v)

\* min(a, b): b replaces a only when b < a
PyMin(a, b) == IF PyLt(b, a) THEN b ELSE a
\* max(a, b): b replaces a only when b > a
PyMax(a, b) == IF PyLt(a, b) THEN b ELSE a

\* math.acos(x) for a float x
MathAcos(x) ==
  IF IsRaise(x) THEN x
  ELSE IF x.c = "nan" THEN NaN
  ELSE IF ~IsFin(x) \/ Abs(x.v) > Scale THEN Raise("ValueError", "math domain error")
  ELSE [t |-> "angle", c |-> "acos", v |-> x.v]

\* bool(x) for a float x
Truthy(x) == ~IsZero(x)

(* -------- class Vector -------- *)
\* heap: the Vector objects created so far, each [x, y]; an object's identity
\* is its index.  last: the most recent call, its operands as they were
\* when it was made, and its outcome.  fuel: the calls still to be made.
VARIABLES heap, last, fuel
vars == <<heap, last, fuel>>

Returns(h, val) == [heap |-> h, out |-> val]

\* __init__ without the isinstance check
Vector__init__Unchecked(h, x, y) ==
  Returns(Append(h, [x |-> x, y |-> y]), Ref(Len(h) + 1))

\* Vector.__init__: the type check, then the two stores into a new object
Vector__init__(h, x, y) ==
  IF ~IsNumber(x) \/ ~IsNumber(y)
  THEN Returns(h, Raise("TypeError", "Vector coordinates must be numbers"))
  ELSE Returns(Append(h, [x |-> x, y |-> y]), Ref(Len(h) + 1))

\* the expression Vector(x, y): an argument whose evaluation raised
\* propagates before the constructor runs
NewVector(h, x, y) ==
  IF IsRaise(x) THEN Returns(h, x)
  ELSE IF IsRaise(y) THEN Returns(h, y)
  ELSE Vector__init__(h, x, y)

Vector__add__(h, self, other) ==
  IF ~IsVector(other)
  THEN Returns(h, Raise("TypeError", "You can do only sum of two Vector type objects"))
  ELSE NewVector(h, PyAdd(h[self].x, h[other.v].x), PyAdd(h[self].y, h[other.v].y))

\* __sub__ pasted from __add__ with the operator left as +
Vector__sub__Adds(h, self, other) ==
  IF ~IsVector(other)
  THEN Returns(h, Raise("TypeError", "You can do only subtract two Vector type objects"))
  ELSE NewVector(h, PyAdd(h[self].x, h[other.v].x), PyAdd(h[self].y, h[other.v].y))

Vector__sub__(h, self, other) ==
  IF ~IsVector(other)
  THEN Returns(h, Raise("TypeError", "You can do only subtract two Vector type objects"))
  ELSE NewVector(h, PySub(h[self].x, h[other.v].x), PySub(h[self].y, h[other.v].y))

\* __mul__ whose second test is isinstance(other, int)
Vector__mul__IntOnly(h, self, other) ==
  IF IsVector(other)
  THEN Returns(h, PyAdd(PyMul(h[self].x, h[other.v].x), PyMul(h[self].y, h[other.v].y)))
  ELSE IF IsIntLike(other)
  THEN NewVector(h, PyMul(h[self].x, other), PyMul(h[self].y, other))
  ELSE Returns(h, Raise("TypeError", "You can multiply vector only with other vector or number"))

Vector__mul__(h, self, other) ==
  IF IsVector(other)
  THEN Returns(h, PyAdd(PyMul(h[self].x, h[other.v].x), PyMul(h[self].y, h[other.v].y)))
  ELSE IF IsNumber(other)
  THEN NewVector(h, PyMul(h[self].x, other), PyMul(h[self].y, other))
  ELSE Returns(h, Raise("TypeError", "You can multiply vector only with other vector or number"))

\* no __rmul__: number * Vector is unsupported
Vector__rmul__Missing(h, self, other) ==
  Returns(h, Raise("TypeError", "unsupported operand type(s) for *"))

Vector__rmul__(h, self, other) == Vector__mul__(h, self, other)

\* __truediv__ that returns nothing on a zero divisor
Vector__truediv__Silent(h, self, other) ==
  IF ~IsNumber(other)
  THEN Returns(h, Raise("TypeError", "You can divide only by number"))
  ELSE IF PyEq(other, I(0))
  THEN Returns(h, None)
  ELSE NewVector(h, PyTrueDiv(h[self].x, other), PyTrueDiv(h[self].y, other))

Vector__truediv__(h, self, other) ==
  IF ~IsNumber(other)
  THEN Returns(h, Raise("TypeError", "You can divide only by number"))
  ELSE IF PyEq(other, I(0))
  THEN Returns(h, Raise("ZeroDivisionError", "Division by zero is not allowed"))
  ELSE NewVector(h, PyTrueDiv(h[self].x, other), PyTrueDiv(h[self].y, other))

Vector__abs__(h, self) ==
  Returns(h, MathSqrt(PyAdd(PyPow2(h[self].x), PyPow2(h[self].y))))

Vector__pow__(h, self, power) ==
  Returns(h, Raise("NotImplementedError", "Vector power operation is not supported"))

\* __eq__ that compares x only
Vector__eq__XOnly(h, self, other) ==
  Returns(h, B(IsVector(other) /\ PyEq(h[self].x, h[other.v].x)))

Vector__eq__(h, self, other) ==
  Returns(h, B(IsVector(other) /\ PyEq(h[self].x, h[other.v].x) /\ PyEq(h[self].y, h[other.v].y)))

\* __neg__ that flips self in place and returns it
Vector__neg__InPlace(h, self) ==
  Returns([h EXCEPT ![self] = [x |-> PyMul(h[self].x, I(-1)), y |-> PyMul(h[self].y, I(-1))]],
          Ref(self))

Vector__neg__(h, self) ==
  NewVector(h, PyMul(h[self].x, I(-1)), PyMul(h[self].y, I(-1)))

\* the ratio under IEEE division: x / 0.0 is an infinity or NaN, no error
CosRatioIEEE(h, self, other) ==
  LET d == Vector__mul__(h, self, other).out
      m == PyMul(Vector__abs__(h, self).out, Vector__abs__(h, other.v).out)
  IN IF IsRaise(d) THEN d ELSE IF IsRaise(m) THEN m
     ELSE IF IsZero(m)
     THEN (IF IsRaise(ToFloat(d)) THEN ToFloat(d)
           ELSE IF ToFloat(d).c = "nan" \/ IsZero(ToFloat(d)) THEN NaN
           ELSE SignedInf(FSign(ToFloat(d))))
     ELSE PyTrueDiv(d, m)

\* res after line 223: (self * other) / (abs(self) * abs(other))
CosRatio(h, self, other) ==
  PyTrueDiv(Vector__mul__(h, self, other).out,
            PyMul(Vector__abs__(h, self).out, Vector__abs__(h, other.v).out))

\* the clamp without its upper bound
ClampLowerOnly(res) == PyMax(F(-Scale), res)

\* res after line 224: max(-1.0, min(1.0, res))
Clamp(res) == PyMax(F(-Scale), PyMin(F(Scale), res))

angle_between(h, self, other) ==
  IF ~IsVector(other)
  THEN Returns(h, Raise("TypeError", "You can get angle only between two vectors"))
  ELSE LET res == CosRatio(h, self, other)
       IN IF IsRaise(res) THEN Returns(h, res)
          ELSE Returns(h, MathAcos(Clamp(res)))

\* normalize that returns the zero vector for a zero vector
normalizeZeroSafe(h, self) ==
  LET mod == Vector__abs__(h, self).out
  IN IF IsRaise(mod) THEN Returns(h, mod)
     ELSE IF Truthy(mod)
     THEN NewVector(h, PyTrueDiv(h[self].x, mod), PyTrueDiv(h[self].y, mod))
     ELSE NewVector(h, F(0), F(0))

normalize(h, self) ==
  LET mod == Vector__abs__(h, self).out
  IN IF IsRaise(mod) THEN Returns(h, mod)
     ELSE IF Truthy(mod)
     THEN NewVector(h, PyTrueDiv(h[self].x, mod), PyTrueDiv(h[self].y, mod))
     ELSE Returns(h, Raise("ZeroDivisionError", "module of vector = 0"))

(* -------- inputs -------- *)
Half == F(Scale \div 2)
Tiny == F(1)
Big == F(FMaxU)
Huge == I(FloatMax + 1)

\* components of the vectors the calls start from
CompX == {I(0), I(3), Huge, B(TRUE), Half, Tiny, Big, Inf, NaN}
CompY == {I(0), I(4), Half}
\* right operands that are not Vectors
Scalars == {I(0), I(2), F(0), Half, B(TRUE), NaN, Huge, Str}
\* arguments of a direct construction
CtorArgs == {I(0), NaN, Str, None}

Vec(x, y) == [x |-> x, y |-> y]
\* v1 and v2 of the demonstration routine and of the tests' setUp
DemoHeap == <<Vec(I(3), I(4)), Vec(I(1), I(2))>>
StartVectors == {Vec(x, y) : x \in CompX, y \in CompY}

NoVec == Vec(None, None)
Others(h) == Scalars \cup {Ref(j) : j \in 1..Len(h)}

Call(op, self, a, other, r) ==
  /\ fuel > 0
  /\ fuel' = fuel - 1
  /\ heap' = r.heap
  /\ last' = [op |-> op, self |-> self, a |-> a, other |-> other,
              b |-> IF IsVector(other) THEN heap[other.v] ELSE NoVec,
              n |-> Len(heap), out |-> r.out]

\* A run starts either from v1 and v2 of the demonstration routine, with
\* MaxOps calls to make, or from any two Vectors over CompX and CompY
\* (the edge values of Python's numbers), with one call to make
Init ==
  /\ last = [op |-> "none", self |-> 0, a |-> NoVec, other |-> None, b |-> NoVec,
             n |-> 0, out |-> None]
  /\ \/ heap = DemoHeap /\ fuel = MaxOps
     \/ fuel = 1 /\ \E a \in StartVectors, b \in StartVectors : heap = <<a, b>>

\* Vector(x, y)
Construct == \E x \in CtorArgs, y \in CtorArgs :
  Call("init", 0, Vec(x, y), None, NewVector(heap, x, y))
\* heap[i] + other
Add == \E i \in 1..Len(heap), other \in Others(heap) :
  Call("add", i, heap[i], other, Vector__add__(heap, i, other))
\* heap[i] - other
Sub == \E i \in 1..Len(heap), other \in Others(heap) :
  Call("sub", i, heap[i], other, Vector__sub__(heap, i, other))
\* heap[i] * other
Mul == \E i \in 1..Len(heap), other \in Others(heap) :
  Call("mul", i, heap[i], other, Vector__mul__(heap, i, other))
\* other * heap[i], other not a Vector: the left operand's type does not
\* know Vector, so Python calls heap[i].__rmul__(other)
RMul == \E i \in 1..Len(heap), other \in Scalars :
  Call("rmul", i, heap[i], other, Vector__rmul__(heap, i, other))
\* heap[i] / other
TrueDiv == \E i \in 1..Len(heap), other \in Others(heap) :
  Call("truediv", i, heap[i], other, Vector__truediv__(heap, i, other))
\* abs(heap[i])
AbsOp == \E i \in 1..Len(heap) :
  Call("abs", i, heap[i], None, Vector__abs__(heap, i))
\* heap[i] ** 2
Pow == \E i \in 1..Len(heap) :
  Call("pow", i, heap[i], I(2), Vector__pow__(heap, i, I(2)))
\* heap[i] == other
Eq == \E i \in 1..Len(heap), other \in Others(heap) :
  Call("eq", i, heap[i], other, Vector__eq__(heap, i, other))
\* -heap[i]
Neg == \E i \in 1..Len(heap) :
  Call("neg", i, heap[i], None, Vector__neg__(heap, i))
\* heap[i].angle_between(other)
AngleBetween == \E i \in 1..Len(heap), other \in Others(heap) :
  Call("angle_between", i, heap[i], other, angle_between(heap, i, other))
\* heap[i].normalize()
Normalize == \E i \in 1..Len(heap) :
  Call("normalize", i, heap[i], None, normalize(heap, i))

Next ==
  \/ Construct \/ Add \/ Sub \/ Mul \/ RMul \/ TrueDiv \/ AbsOp \/ Pow
  \/ Eq \/ Neg \/ AngleBetween \/ Normalize

Spec == Init /\ [][Next]_vars

(* -------- the claims -------- *)
\* the call returned a new Vector object with components x, y
OutIsNew(x, y) ==
  /\ last.out = Ref(last.n + 1)
  /\ Len(heap) = last.n + 1
  /\ heap[last.n + 1] = Vec(x, y)
\* the call raised exception class e and created no object
OutRaises(e) == last.out.t = e /\ Len(heap) = last.n
\* the call returned the value val and created no object
OutIs(val) == last.out = val /\ Len(heap) = last.n
\* sqrt(x^2 + y^2) of the components v
Mag(v) == MathSqrt(PyAdd(PyPow2(v.x), PyPow2(v.y)))
\* a.x*b.x + a.y*b.y
Dot(a, b) == PyAdd(PyMul(a.x, b.x), PyMul(a.y, b.y))

\* C1 as stated: a * b is the scalar a.x*b.x + a.y*b.y when b is a Vector,
\* a new Vector (a.x*b, a.y*b) when b is a number, and TypeError otherwise
C1_Original ==
  last.op = "mul" =>
    IF IsVector(last.other)
    THEN IsNumber(last.out) /\ OutIs(Dot(last.a, last.b))
    ELSE IF IsNumber(last.other)
    THEN OutIsNew(PyMul(last.a.x, last.other), PyMul(last.a.y, last.other))
    ELSE OutRaises("TypeError")

\* C1 amended: a * b dispatches on the kind of b: the scalar
\* a.x*b.x + a.y*b.y (not a Vector) when b is a Vector, a new Vector
\* (a.x*b, a.y*b) when b is a number, in both cases unless the arithmetic
\* has to convert to float an int too large for a float, whose OverflowError
\* then propagates; TypeError for any other b, and nothing is returned
C1_MulDispatch ==
  last.op = "mul" =>
    IF IsVector(last.other)
    THEN LET d == Dot(last.a, last.b)
         IN IF IsRaise(d) THEN OutRaises("OverflowError")
            ELSE IsNumber(last.out) /\ OutIs(d)
    ELSE IF IsNumber(last.other)
    THEN LET x == PyMul(last.a.x, last.other)
             y == PyMul(last.a.y, last.other)
         IN IF IsRaise(x) \/ IsRaise(y) THEN OutRaises("OverflowError")
            ELSE OutIsNew(x, y)
    ELSE OutRaises("TypeError")

\* v1 * 2 is Vector(6, 8)
C1_Witness ==
  /\ last.op = "mul" /\ last.a = Vec(I(3), I(4)) /\ last.other = I(2)
  /\ OutIsNew(I(6), I(8))

\* C9 as stated: a + b and a - b are new component-wise Vectors when b is a
\* Vector and TypeError when b is not
C9_Original ==
  /\ last.op = "add" =>
       IF IsVector(last.other)
       THEN OutIsNew(PyAdd(last.a.x, last.b.x), PyAdd(last.a.y, last.b.y))
       ELSE OutRaises("TypeError")
  /\ last.op = "sub" =>
       IF IsVector(last.other)
       THEN OutIsNew(PySub(last.a.x, last.b.x), PySub(last.a.y, last.b.y))
       ELSE OutRaises("TypeError")

\* C9 amended: when b is a Vector, a + b is a new Vector (a.x+b.x, a.y+b.y)
\* and a - b a new Vector (a.x-b.x, a.y-b.y), unless a sum or difference of
\* an int too large for a float with a float raises OverflowError, which
\* propagates; when b is not a Vector (a plain number included) both raise
\* TypeError
C9_AddSub ==
  /\ last.op = "add" =>
       IF IsVector(last.other)
       THEN LET x == PyAdd(last.a.x, last.b.x)
                y == PyAdd(last.a.y, last.b.y)
            IN IF IsRaise(x) \/ IsRaise(y) THEN OutRaises("OverflowError")
               ELSE OutIsNew(x, y)
       ELSE OutRaises("TypeError")
  /\ last.op = "sub" =>
       IF IsVector(last.other)
       THEN LET x == PySub(last.a.x, last.b.x)
                y == PySub(last.a.y, last.b.y)
            IN IF IsRaise(x) \/ IsRaise(y) THEN OutRaises("OverflowError")
               ELSE OutIsNew(x, y)
       ELSE OutRaises("TypeError")

\* v1 - v2 is Vector(2, 2)
C9_Witness ==
  /\ last.op = "sub" /\ last.a = Vec(I(3), I(4)) /\ last.b = Vec(I(1), I(2))
  /\ OutIsNew(I(2), I(2))

\* C3 as stated: a / b is TypeError when b is not a number, else
\* ZeroDivisionError when b == 0, else a new Vector (a.x/b, a.y/b); never None
C3_Original ==
  last.op = "truediv" =>
    /\ last.out # None
    /\ IF ~IsNumber(last.other) THEN OutRaises("TypeError")
       ELSE IF PyEq(last.other, I(0)) THEN OutRaises("ZeroDivisionError")
       ELSE OutIsNew(PyTrueDiv(last.a.x, last.other), PyTrueDiv(last.a.y, last.other))

\* C3 amended: a / b has exactly one of four outcomes: TypeError if b is not
\* a number, checked first; ZeroDivisionError if b is a number equal to 0;
\* OverflowError if a component quotient cannot be computed because an int
\* is too large to convert to float or an int/int quotient is too large for
\* a float; otherwise a new Vector (a.x/b, a.y/b).  It never returns None
C3_Division ==
  last.op = "truediv" =>
    /\ last.out # None
    /\ IF ~IsNumber(last.other) THEN OutRaises("TypeError")
       ELSE IF PyEq(last.other, I(0)) THEN OutRaises("ZeroDivisionError")
       ELSE LET x == PyTrueDiv(last.a.x, last.other)
                y == PyTrueDiv(last.a.y, last.other)
            IN IF IsRaise(x) \/ IsRaise(y) THEN OutRaises("OverflowError")
               ELSE OutIsNew(x, y)

\* v1 / 2 is Vector(1.5, 2.0)
C3_Witness ==
  /\ last.op = "truediv" /\ last.a = Vec(I(3), I(4)) /\ last.other = I(2)
  /\ OutIsNew(F(Scale + Scale \div 2), F(2 * Scale))

\* a component is NaN
HasNaN(v) == v.x.c = "nan" \/ v.y.c = "nan"
\* Python's == on the components of two Vectors
SameComponents(a, b) == PyEq(a.x, b.x) /\ PyEq(a.y, b.y)

\* C2 as stated: for a number k, k * a succeeds and equals a * k, the
\* scaled Vector (a.x*k, a.y*k)
C2_Original ==
  (last.op = "rmul" /\ IsNumber(last.other)) =>
    LET ak == Vec(PyMul(last.a.x, last.other), PyMul(last.a.y, last.other))
    IN /\ OutIsNew(ak.x, ak.y)
       /\ SameComponents(heap[last.n + 1], ak)

\* C2 amended: for a number k, k * a has the outcome of a * k: the scaled
\* Vector (a.x*k, a.y*k), or the OverflowError of a product of an int too
\* large for a float with a float; the two Vectors compare equal under ==
\* unless a product is NaN
C2_RMulCommutes ==
  (last.op = "rmul" /\ IsNumber(last.other)) =>
    LET ak == Vec(PyMul(last.a.x, last.other), PyMul(last.a.y, last.other))
    IN IF IsRaise(ak.x) \/ IsRaise(ak.y) THEN OutRaises("OverflowError")
       ELSE /\ OutIsNew(ak.x, ak.y)
            /\ SameComponents(heap[last.n + 1], ak) <=> ~HasNaN(ak)

\* 2 * v1 is Vector(6, 8)
C2_Witness ==
  /\ last.op = "rmul" /\ last.a = Vec(I(3), I(4)) /\ last.other = I(2)
  /\ OutIsNew(I(6), I(8))

\* C7 as stated: a == b is true iff b is a Vector with equal components,
\* false (no error) for a non-Vector; a == a always; a == b iff b == a
C7_Original ==
  last.op = "eq" =>
    /\ OutIs(B(IsVector(last.other) /\ SameComponents(last.a, last.b)))
    /\ last.other = Ref(last.self) => last.out = B(TRUE)
    /\ IsVector(last.other) => last.out = B(SameComponents(last.b, last.a))

\* C7 amended: a == b is true iff b is a Vector with b.x == a.x and
\* b.y == a.y, false and never an error for a non-Vector; a == b iff b == a;
\* a == a holds exactly for the Vectors that have no NaN component
C7_Equality ==
  last.op = "eq" =>
    /\ OutIs(B(IsVector(last.other) /\ SameComponents(last.a, last.b)))
    /\ last.other = Ref(last.self) => last.out = B(~HasNaN(last.a))
    /\ IsVector(last.other) => last.out = B(SameComponents(last.b, last.a))

\* a Vector with a NaN component compared with itself gives False
C7_Witness ==
  /\ last.op = "eq" /\ last.other = Ref(last.self) /\ HasNaN(last.a)
  /\ last.out = B(FALSE)

\* (a.b) / (|a| * |b|)
Ratio(a, b) == PyTrueDiv(Dot(a, b), PyMul(Mag(a), Mag(b)))
\* the magnitude of v is computed and is 0.0
ZeroMag(v) == Mag(v) = F(0)
\* the magnitude of v is computed and is a finite float
FinMag(v) == Mag(v).t = "float" /\ Mag(v).c = "fin"

\* C4 as stated: angle_between on two Vectors of which one has zero
\* magnitude raises nothing, and the only error angle_between raises is
\* TypeError for a non-Vector argument
C4_Original ==
  last.op = "angle_between" =>
    /\ (IsVector(last.other) /\ (ZeroMag(last.a) \/ ZeroMag(last.b))) => ~IsRaise(last.out)
    /\ IsRaise(last.out) => (~IsVector(last.other) /\ last.out.t = "TypeError")

\* C4 amended: angle_between on two Vectors whose magnitudes are finite
\* and of which at least one is zero raises ZeroDivisionError (the float
\* division by zero raises, it yields no special value).  angle_between
\* raises TypeError when the argument is not a Vector, ZeroDivisionError
\* exactly when the product of the magnitudes is zero, OverflowError when a
\* square, or the conversion of an int to float, overflows, and no other error
C4_AngleErrors ==
  last.op = "angle_between" =>
    /\ ~IsVector(last.other) => OutRaises("TypeError")
    /\ IsVector(last.other) =>
         /\ IsRaise(last.out) => last.out.t \in {"ZeroDivisionError", "OverflowError"}
         /\ (FinMag(last.a) /\ FinMag(last.b) /\ (ZeroMag(last.a) \/ ZeroMag(last.b)))
              => OutRaises("ZeroDivisionError")
         /\ last.out.t = "ZeroDivisionError" <=>
              (~IsRaise(Dot(last.a, last.b)) /\ PyMul(Mag(last.a), Mag(last.b)) = F(0))

\* the zero vector against Vector(3, 4) raises ZeroDivisionError
C4_Witness ==
  /\ last.op = "angle_between" /\ IsVector(last.other)
  /\ last.a = Vec(I(0), I(0)) /\ last.b = Vec(I(3), I(4))
  /\ OutRaises("ZeroDivisionError")

\* C5: whenever angle_between on two Vectors computes the ratio
\* (a.b)/(|a|*|b|), the value handed to math.acos lies in [-1.0, 1.0] and is
\* the ratio itself when the ratio already lies in [-1.0, 1.0]
C5_Clamped ==
  (last.op = "angle_between" /\ IsVector(last.other)) =>
    LET r == Ratio(last.a, last.b)
    IN ~IsRaise(r) =>
         /\ last.out.t = "angle"
         /\ last.out.v >= -Scale /\ last.out.v <= Scale
         /\ (IsFin(r) /\ r.v >= -Scale /\ r.v <= Scale) => last.out.v = r.v

\* a ratio that rounding pushed above 1.0 was handed to acos as 1.0
C5_Witness ==
  /\ last.op = "angle_between" /\ IsVector(last.other)
  /\ ~ZeroMag(last.a) /\ ~ZeroMag(last.b)
  /\ ~IsRaise(Ratio(last.a, last.b))
  /\ IsFin(Ratio(last.a, last.b)) /\ Ratio(last.a, last.b).v > Scale
  /\ last.out = [t |-> "angle", c |-> "acos", v |-> Scale]

\* the components of v are finite, the magnitude of v is finite, and no
\* square lost its leading digits: each component is 0 or at least 1.0
NormalRange(v) ==
  /\ FinMag(v)
  /\ \A x \in {v.x, v.y} :
       IsFin(x) /\ LET u == IF IsIntLike(x) THEN x.v * Scale ELSE x.v
                   IN u = 0 \/ Abs(u) >= Scale

\* C6 as stated: normalize raises ZeroDivisionError iff the magnitude is
\* zero, and otherwise returns a new Vector (a.x/|a|, a.y/|a|) of magnitude 1
C6_Original ==
  last.op = "normalize" =>
    LET m == Mag(last.a)
    IN /\ last.out.t = "ZeroDivisionError" <=> m = F(0)
       /\ (~IsRaise(m) /\ m # F(0)) =>
            /\ OutIsNew(PyTrueDiv(last.a.x, m), PyTrueDiv(last.a.y, m))
            /\ Mag(heap[last.n + 1]) = F(Scale)

\* C6 amended: normalize raises ZeroDivisionError if the computed magnitude
\* of a is zero, and only then; OverflowError propagates when computing the
\* magnitude overflows; for every other Vector it returns a new Vector
\* (a.x/|a|, a.y/|a|), whose magnitude is 1 up to rounding (here: within one
\* unit of the float format) when the components are finite and the squares
\* neither overflow nor underflow, and need not be near 1 otherwise
C6_Normalize ==
  last.op = "normalize" =>
    LET m == Mag(last.a)
    IN IF IsRaise(m) THEN m.t = "OverflowError" /\ OutIs(m)
       ELSE IF m = F(0) THEN OutRaises("ZeroDivisionError")
       ELSE /\ OutIsNew(PyTrueDiv(last.a.x, m), PyTrueDiv(last.a.y, m))
            /\ NormalRange(last.a) =>
                 LET n == Mag(heap[last.n + 1])
                 IN n.t = "float" /\ IsFin(n) /\ Abs(n.v - Scale) <= 1

\* a Vector in the normal range whose normalization has a magnitude one
\* unit below 1.0
C6_Witness ==
  /\ last.op = "normalize" /\ IsVector(last.out) /\ Len(heap) = last.n + 1
  /\ NormalRange(last.a)
  /\ Mag(heap[last.n + 1]) = F(Scale - 1)

\* C8: no call changes the x or y of any existing Vector, whether it
\* returns or raises, and a Vector it returns is a new object
C8_NoMutation ==
  [][/\ Len(heap') >= Len(heap)
     /\ \A i \in 1..Len(heap) : heap'[i] = heap[i]
     /\ IsVector(last'.out) =>
          (last'.out.v = Len(heap) + 1 /\ Len(heap') = Len(heap) + 1)]_vars

\* after two calls that each returned a Vector, the second a negation, the
\* operand of the negation is as it was
C8_Witness ==
  /\ last.op = "neg" /\ last.n = Len(DemoHeap) + 1 /\ last.out = Ref(last.n + 1)
  /\ heap[last.self] = last.a
  /\ heap[last.n + 1] # last.a

\* C10: Vector(x, y) raises TypeError if x or y is not a number and
\* otherwise stores x and y unchanged; every Vector that exists has two
\* numeric components; no operator fails in the construction of its result
C10_NumericComponents ==
  /\ \A i \in 1..Len(heap) : IsNumber(heap[i].x) /\ IsNumber(heap[i].y)
  /\ last.op = "init" =>
       IF ~IsNumber(last.a.x) \/ ~IsNumber(last.a.y) THEN OutRaises("TypeError")
       ELSE OutIsNew(last.a.x, last.a.y)
  /\ last.op # "init" =>
       last.out # Raise("TypeError", "Vector coordinates must be numbers")

\* Vector(x, "a") was refused after an operator had returned a Vector
C10_Witness ==
  /\ last.op = "init" /\ IsNumber(last.a.x) /\ last.a.y = Str
  /\ OutRaises("TypeError")
  /\ Len(heap) = Len(DemoHeap) + 1
====
